---- MODULE Spec2Model ----
(***************************************************************************)
(* A model of the CPA document ingestion pipeline:                         *)
(*   - python-processor/document_processor.py  (DocumentProcessor)         *)
(*   - python-processor/azure_search.py        (AzureSearchClient)         *)
(*   - python-processor/main.py                (process_pdf and friends)   *)
(*   - backend/embeddings/app.py               (the embedding service)     *)
(* Text is a sequence of one-character strings; a status text is a         *)
(* sequence of lines; an exception message is a sequence of string parts.  *)
(* The remote search service, the PDF reader, the text splitter and the    *)
(* embedding model are the environment: each call either raises (chosen by *)
(* the environment) or answers as the library documents it.                *)
(***************************************************************************)
EXTENDS Integers, Sequences, FiniteSets, TLC

\* ------------------------------------------------------------------ bounds
\* Total number of invocations (button clicks and direct client calls).
MaxOps == 3
\* DocumentProcessor(chunk_size, chunk_overlap), scaled down from 1000/200
\* so that the short texts of the model split into several chunks.
chunk_size == 20
chunk_overlap == 4
\* create_index's default embedding_dim.
DefaultDim == 384

\* ------------------------------------------------------------- text helpers
None == "None"

Whitespace == {" ", "\n"}

Digit(d) == <<"0", "1", "2", "3", "4", "5", "6", "7", "8", "9">>[d + 1]

\* str(n) for n >= 0: decimal digits, most significant first.
RECURSIVE IntToStr(_)
IntToStr(n) == IF n < 10 THEN <<Digit(n)>>
               ELSE IntToStr(n \div 10) \o <<Digit(n % 10)>>

\* s.replace(old, new) for one-character old and new.
Replace(s, old, new) == [i \in DOMAIN s |-> IF s[i] = old THEN new ELSE s[i]]

\* str.strip(): drop leading and trailing whitespace.
RECURSIVE LStrip(_)
LStrip(s) == IF s # <<>> /\ Head(s) \in Whitespace THEN LStrip(Tail(s)) ELSE s

RECURSIVE RStrip(_)
RStrip(s) == IF s # <<>> /\ s[Len(s)] \in Whitespace
             THEN RStrip(SubSeq(s, 1, Len(s) - 1)) ELSE s

Strip(s) == RStrip(LStrip(s))

\* Path(file_path).name: the part after the last "/".
RECURSIVE PathName(_)
PathName(p) == IF \E i \in DOMAIN p : p[i] = "/"
               THEN PathName(Tail(p)) ELSE p

\* One line of a status text.
Line(tag, n, name, msg) == [tag |-> tag, n |-> n, name |-> name, msg |-> msg]

\* The outcome of a call: a returned value or a raised exception.
Returned(v) == [raised |-> FALSE, value |-> v, msg |-> <<>>]
Raised(m) == [raised |-> TRUE, value |-> <<>>, msg |-> m]

\* --------------------------------------------------------- DocumentProcessor
\* "\n\n--- Page k ---\n\n"
PageMarker(k) == <<"\n", "\n", "-", "-", "-", " ", "P", "a", "g", "e", " ">>
                 \o IntToStr(k)
                 \o <<" ", "-", "-", "-", "\n", "\n">>

\* The loop of extract_text_from_pdf over pages i..Len(pages).
RECURSIVE PagesText(_, _)
PagesText(pages, i) ==
    IF i > Len(pages) THEN <<>>
    ELSE (IF pages[i] # <<>> THEN PageMarker(i) \o pages[i] ELSE <<>>)
         \o PagesText(pages, i + 1)

\* extract_text_from_pdf: pdf.readable is the environment's answer to
\* open() and PdfReader.
extract_text_from_pdf(pdf) ==
    IF ~pdf.readable
    THEN Raised(<<"Error extracting text from PDF: ", "cannot read file">>)
    ELSE Returned(Strip(PagesText(pdf.pages, 1)))

\* The splitter's character-level windows: a window of chunk_size characters
\* every chunk_size - chunk_overlap characters.
RECURSIVE Windows(_, _)
Windows(text, from) ==
    IF from > Len(text) THEN <<>>
    ELSE IF from + chunk_size - 1 >= Len(text)
         THEN <<SubSeq(text, from, Len(text))>>
         ELSE <<SubSeq(text, from, from + chunk_size - 1)>>
              \o Windows(text, from + chunk_size - chunk_overlap)

\* chunk_text: fault is the environment making split_text raise.
chunk_text(text, fault) ==
    IF fault THEN Raised(<<"Error chunking text: ", "splitter failed">>)
    ELSE Returned(Windows(text, 1))

\* The model's vector for one text: a unit vector of two components.
Encode(t) == IF Len(t) % 2 = 0 THEN <<1, 0>> ELSE <<0, 1>>

\* generate_embeddings: one vector per chunk, in order.
generate_embeddings(cs, fault) ==
    IF fault THEN Raised(<<"Error generating embeddings: ", "model failed">>)
    ELSE Returned([i \in DOMAIN cs |-> Encode(cs[i])])

\* ------------------------------------------------------ the remote service
\* self.index_name (AZURE_SEARCH_INDEX_NAME's default).
index_name == "cpa-documents"

HnswConfig == [name |-> "hnsw-config", m |-> 4, efConstruction |-> 400,
               efSearch |-> 500, metric |-> "cosine"]

VectorProfile == [name |-> "vector-profile",
                  algorithm_configuration_name |-> "hnsw-config"]

IndexFields == <<"id", "content", "source_file", "chunk_index",
                 "upload_date", "content_vector">>

\* The SearchIndex definition create_index builds for embedding_dim.
SearchIndex(embedding_dim) ==
    [name |-> index_name, fields |-> IndexFields, key |-> "id",
     vector_search_dimensions |-> embedding_dim,
     vector_search_profile_name |-> "vector-profile",
     algorithms |-> <<HnswConfig>>, profiles |-> <<VectorProfile>>]

NoSchema ==
    [name |-> None, fields |-> <<>>, key |-> None,
     vector_search_dimensions |-> 0, vector_search_profile_name |-> None,
     algorithms |-> <<>>, profiles |-> <<>>]

\* The remote index: whether it exists, its schema and its documents.
NoIndex == [exists |-> FALSE, schema |-> NoSchema, docs |-> {}]

ServiceError == <<"service request failed">>
NotFoundError == <<"index not found">>

\* index_client.delete_index(name): fault is a transport/service failure.
RemoteDeleteIndex(ix, fault) ==
    IF fault THEN [index |-> ix, out |-> Raised(ServiceError)]
    ELSE IF ~ix.exists THEN [index |-> ix, out |-> Raised(NotFoundError)]
    ELSE [index |-> NoIndex, out |-> Returned(<<>>)]

\* index_client.create_or_update_index(index): defines the index or replaces
\* its schema; the documents of an existing index stay.
RemoteCreateOrUpdateIndex(ix, definition, fault) ==
    IF fault THEN [index |-> ix, out |-> Raised(ServiceError)]
    ELSE [index |-> [exists |-> TRUE, schema |-> definition, docs |-> ix.docs],
          out |-> Returned(definition.name)]

\* The documents of batch at the positions the service accepts.
Accepted(batch, refused) == {batch[i] : i \in DOMAIN batch \ refused}

\* search_client.upload_documents(documents): an upsert by key.  The service
\* answers with one indexing result per document; refused are the positions
\* whose result reports a failure (the call itself does not raise for them).
RemoteUploadDocuments(ix, batch, fault, refused) ==
    IF fault THEN [index |-> ix, out |-> Raised(ServiceError), stored |-> 0]
    ELSE IF ~ix.exists
    THEN [index |-> ix, out |-> Raised(NotFoundError), stored |-> 0]
    ELSE LET acc == Accepted(batch, refused)
             keys == {d.id : d \in acc}
         IN [index |-> [ix EXCEPT !.docs =
                           {d \in ix.docs : d.id \notin keys} \cup acc],
             out |-> Returned([i \in DOMAIN batch |->
                                 [key |-> batch[i].id,
                                  succeeded |-> i \notin refused]]),
             stored |-> Cardinality(acc)]

\* The service's similarity score of a document for a query vector.
Score(doc, q) == doc.content_vector[1] * q[1] + doc.content_vector[2] * q[2]

\* The k best documents of docs for q, best first.
RECURSIVE Nearest(_, _, _)
Nearest(docs, q, k) ==
    IF k = 0 \/ docs = {} THEN <<>>
    ELSE LET best == CHOOSE d \in docs :
                        \A e \in docs : Score(e, q) <= Score(d, q)
         IN <<best>> \o Nearest(docs \ {best}, q, k - 1)

\* search_client.search(vector_queries=..., select=...), iterated.
RemoteSearch(ix, q, k, fault) ==
    IF fault THEN Raised(ServiceError)
    ELSE IF ~ix.exists THEN Raised(NotFoundError)
    ELSE LET hits == Nearest(ix.docs, q, k)
         IN Returned([i \in DOMAIN hits |->
                        [content |-> hits[i].content,
                         source_file |-> hits[i].source_file,
                         chunk_index |-> hits[i].chunk_index,
                         score |-> Score(hits[i], q)]])

\* -------------------------------------------------------- AzureSearchClient
\* The dict a client method returns: {'success': True, ...} or
\* {'success': False, 'error': str(e)}.  A key the dict does not have is
\* None here (count: -1).
Success(count, name, message) ==
    [success |-> TRUE, count |-> count, index_name |-> name,
     message |-> message, error |-> <<>>]
Failure(error) ==
    [success |-> FALSE, count |-> -1, index_name |-> None,
     message |-> <<>>, error |-> error]

Min(a, b) == IF a <= b THEN a ELSE b

\* delete_index: the remote call inside try/except.
delete_index(ix, fault) ==
    LET r == RemoteDeleteIndex(ix, fault)
    IN IF r.out.raised
       THEN [index |-> r.index, attempts |-> 1,
             out |-> Returned(Failure(r.out.msg))]
       ELSE [index |-> r.index, attempts |-> 1,
             out |-> Returned(Success(-1, None,
                        <<"Index '", index_name, "' deleted successfully">>))]

\* create_index that deletes the index before it defines it again.
create_index_recreate(ix, embedding_dim, fault) ==
    LET r == RemoteCreateOrUpdateIndex(RemoteDeleteIndex(ix, fault).index,
                                       SearchIndex(embedding_dim), fault)
    IN IF r.out.raised
       THEN [index |-> r.index, attempts |-> 1,
             out |-> Returned(Failure(r.out.msg))]
       ELSE [index |-> r.index, attempts |-> 1,
             out |-> Returned(Success(-1, r.out.value,
                        <<"Index '", r.out.value,
                          "' created/updated successfully">>))]

\* create_index that creates only: the service refuses an index that exists.
create_index_create_only(ix, embedding_dim, fault) ==
    LET r == RemoteCreateOrUpdateIndex(ix, SearchIndex(embedding_dim),
                                       fault \/ ix.exists)
    IN IF r.out.raised
       THEN [index |-> r.index, attempts |-> 1,
             out |-> Returned(Failure(r.out.msg))]
       ELSE [index |-> r.index, attempts |-> 1,
             out |-> Returned(Success(-1, r.out.value,
                        <<"Index '", r.out.value,
                          "' created/updated successfully">>))]

\* create_index(embedding_dim): builds the definition, then the remote call.
create_index(ix, embedding_dim, fault) ==
    LET r == RemoteCreateOrUpdateIndex(ix, SearchIndex(embedding_dim), fault)
    IN IF r.out.raised
       THEN [index |-> r.index, attempts |-> 1,
             out |-> Returned(Failure(r.out.msg))]
       ELSE [index |-> r.index, attempts |-> 1,
             out |-> Returned(Success(-1, r.out.value,
                        <<"Index '", r.out.value,
                          "' created/updated successfully">>))]

\* The id of chunk idx of source_file: f"{source_file.replace('.', '_')}_{idx}"
DocId(source_file, idx) ==
    Replace(source_file, ".", "_") \o <<"_">> \o IntToStr(idx)

\* Documents with chunk_index counted from 1.
DocumentsFromOne(chunks, embeddings, source_file, upload_time) ==
    [i \in 1..Min(Len(chunks), Len(embeddings)) |->
        [id |-> DocId(source_file, i - 1),
         content |-> chunks[i],
         source_file |-> source_file,
         chunk_index |-> i,
         upload_date |-> upload_time,
         content_vector |-> embeddings[i]]]

\* The documents list upload_documents prepares: enumerate(zip(...)), the
\* Python index idx = i - 1 for position i.
Documents(chunks, embeddings, source_file, upload_time) ==
    [i \in 1..Min(Len(chunks), Len(embeddings)) |->
        [id |-> DocId(source_file, i - 1),
         content |-> chunks[i],
         source_file |-> source_file,
         chunk_index |-> i - 1,
         upload_date |-> upload_time,
         content_vector |-> embeddings[i]]]

\* upload_documents without the length check: zip() stops at the shorter list.
upload_documents_zip(ix, chunks, embeddings, source_file, now, fault, refused) ==
    LET documents == Documents(chunks, embeddings, source_file, now)
        r == RemoteUploadDocuments(ix, documents, fault, refused)
    IN IF r.out.raised
       THEN [index |-> r.index, attempts |-> 1, called |-> TRUE,
             sent |-> documents, stored |-> r.stored, out |-> Returned(Failure(r.out.msg))]
       ELSE [index |-> r.index, attempts |-> 1, called |-> TRUE,
             sent |-> documents, stored |-> r.stored,
             out |-> Returned(Success(Len(documents), index_name,
                       <<"Uploaded ", "documents successfully">>))]

\* upload_documents that tries the remote call a second time when it fails.
upload_documents_retry(ix, chunks, embeddings, source_file, now, fault, refused) ==
    IF Len(chunks) # Len(embeddings)
    THEN [index |-> ix, attempts |-> 0, called |-> FALSE, sent |-> <<>>,
          stored |-> 0,
          out |-> Returned(Failure(
                    <<"Number of chunks must match number of embeddings">>))]
    ELSE LET documents == Documents(chunks, embeddings, source_file, now)
             first == RemoteUploadDocuments(ix, documents, fault, refused)
             r == IF first.out.raised
                  THEN RemoteUploadDocuments(ix, documents, fault, refused)
                  ELSE first
             n == IF first.out.raised THEN 2 ELSE 1
         IN IF r.out.raised
            THEN [index |-> r.index, attempts |-> n, called |-> TRUE,
                  sent |-> documents, stored |-> r.stored,
                  out |-> Returned(Failure(r.out.msg))]
            ELSE [index |-> r.index, attempts |-> n, called |-> TRUE,
                  sent |-> documents, stored |-> r.stored,
                  out |-> Returned(Success(Len(documents), index_name,
                            <<"Uploaded ", "documents successfully">>))]

\* upload_documents(chunks, embeddings, source_file).  called: whether
\* search_client.upload_documents was invoked, sent: the batch it was given,
\* stored: the number of documents the service stored for this call.
\* attempts, here and in the other methods: the number of times the method
\* called the remote service.
upload_documents(ix, chunks, embeddings, source_file, now, fault, refused) ==
    IF Len(chunks) # Len(embeddings)
    THEN [index |-> ix, attempts |-> 0, called |-> FALSE, sent |-> <<>>,
          stored |-> 0,
          out |-> Returned(Failure(
                    <<"Number of chunks must match number of embeddings">>))]
    ELSE LET documents == Documents(chunks, embeddings, source_file, now)
             r == RemoteUploadDocuments(ix, documents, fault, refused)
         IN IF r.out.raised
            THEN [index |-> r.index, attempts |-> 1, called |-> TRUE,
                  sent |-> documents, stored |-> r.stored, out |-> Returned(Failure(r.out.msg))]
            ELSE [index |-> r.index, attempts |-> 1, called |-> TRUE,
                  sent |-> documents, stored |-> r.stored,
                  out |-> Returned(Success(Len(documents), index_name,
                            <<"Uploaded ", "documents successfully">>))]

\* search_similar that swallows a failure and answers with no results.
search_similar_swallow(ix, query_embedding, top_k, fault) ==
    LET r == RemoteSearch(ix, query_embedding, top_k, fault)
    IN [attempts |-> 1] @@
       IF r.raised
       THEN Returned(<<>>)
       ELSE Returned([i \in DOMAIN r.value |->
                        [content |-> r.value[i].content,
                         source |-> r.value[i].source_file,
                         chunk |-> r.value[i].chunk_index,
                         score |-> r.value[i].score]])

\* search_similar(query_embedding, top_k): a remote failure is re-raised with
\* its message wrapped.
search_similar(ix, query_embedding, top_k, fault) ==
    LET r == RemoteSearch(ix, query_embedding, top_k, fault)
    IN [attempts |-> 1] @@
       IF r.raised
       THEN Raised(<<"Error searching documents: ">> \o r.msg)
       ELSE Returned([i \in DOMAIN r.value |->
                        [content |-> r.value[i].content,
                         source |-> r.value[i].source_file,
                         chunk |-> r.value[i].chunk_index,
                         score |-> r.value[i].score]])

\* ------------------------------------------------------------- process_pdf
\* A file object of the upload control: name is its path, pages and readable
\* are what the PDF reader finds in it.  NoFile is Python's None.
File(name, pages, readable) ==
    [given |-> TRUE, name |-> name, pages |-> pages, readable |-> readable]
NoFile == [given |-> FALSE, name |-> <<>>, pages |-> <<>>, readable |-> FALSE]

\* The local state of one process_pdf invocation.  calls are the external
\* calls it has made, completed the stages that ended without a failure,
\* output the string it returned (<<>> while it runs).
NewRun(id, pdf_file) ==
    [id |-> id, stage |-> "START", pdf_file |-> pdf_file, file_name |-> <<>>,
     status |-> <<>>, text |-> <<>>, chunks |-> <<>>, embeddings |-> <<>>,
     calls |-> <<>>, completed |-> <<>>, returned |-> FALSE, output |-> <<>>]

NoRun == [NewRun(0, NoFile) EXCEPT !.stage = "IDLE"]

\* return <string>: the invocation ends in stage with that output.
Return(run, stage, output) ==
    [run EXCEPT !.stage = stage, !.returned = TRUE, !.output = output]

\* An except clause that lets the exception leave process_pdf.
Except_propagate(run, msg) ==
    [run EXCEPT !.stage = "ERROR"]

\* except Exception as e: return f"... Error processing file: {str(e)}"
Except(run, msg) ==
    Return(run, "ERROR", <<Line("Error processing file: ", 0, <<>>, msg)>>)

\* Lines 31-40: the None check, the file name, the first two status lines.
process_pdf_start(run) ==
    IF ~run.pdf_file.given
    THEN Return(run, "ERROR", <<Line("No file uploaded", 0, <<>>, <<>>)>>)
    ELSE LET file_name == PathName(run.pdf_file.name)
         IN [run EXCEPT
               !.stage = "EXTRACT",
               !.file_name = file_name,
               !.status = <<Line("Processing: ", 0, file_name, <<>>),
                            Line("Extracting text from PDF...", 0, <<>>, <<>>)>>]

\* process_pdf_extract without its "if not text" check.
process_pdf_extract_unchecked(run) ==
    LET r == extract_text_from_pdf(run.pdf_file)
        called == [run EXCEPT !.calls = Append(@, "extract_text_from_pdf")]
    IN IF r.raised THEN Except(called, r.msg)
       ELSE [called EXCEPT
               !.stage = "CHUNK",
               !.text = r.value,
               !.completed = Append(@, "EXTRACT"),
               !.status = @ \o
                   <<Line("Extracted characters", Len(r.value), <<>>, <<>>),
                     Line("Chunking text...", 0, <<>>, <<>>)>>]

\* Lines 42-49: extraction, the empty-text check, the next status lines.
process_pdf_extract(run) ==
    LET r == extract_text_from_pdf(run.pdf_file)
        called == [run EXCEPT !.calls = Append(@, "extract_text_from_pdf")]
    IN IF r.raised THEN Except(called, r.msg)
       ELSE IF r.value = <<>>
       THEN Return(called, "ERROR",
                   called.status \o
                   <<Line("Error: Could not extract text from PDF",
                          0, <<>>, <<>>)>>)
       ELSE [called EXCEPT
               !.stage = "CHUNK",
               !.text = r.value,
               !.completed = Append(@, "EXTRACT"),
               !.status = @ \o
                   <<Line("Extracted characters", Len(r.value), <<>>, <<>>),
                     Line("Chunking text...", 0, <<>>, <<>>)>>]

\* Lines 50-54: chunking and the next status lines.
process_pdf_chunk(run, fault) ==
    LET r == chunk_text(run.text, fault)
        called == [run EXCEPT !.calls = Append(@, "chunk_text")]
    IN IF r.raised THEN Except(called, r.msg)
       ELSE [called EXCEPT
               !.stage = "EMBED",
               !.chunks = r.value,
               !.completed = Append(@, "CHUNK"),
               !.status = @ \o
                   <<Line("Created chunks", Len(r.value), <<>>, <<>>),
                     Line("Generating embeddings...", 0, <<>>, <<>>)>>]

\* Lines 55-59: embedding and the next status lines.
process_pdf_embed(run, fault) ==
    LET r == generate_embeddings(run.chunks, fault)
        called == [run EXCEPT !.calls = Append(@, "generate_embeddings")]
    IN IF r.raised THEN Except(called, r.msg)
       ELSE [called EXCEPT
               !.stage = "UPLOAD",
               !.embeddings = r.value,
               !.completed = Append(@, "EMBED"),
               !.status = @ \o
                   <<Line("Generated embeddings", Len(r.value), <<>>, <<>>),
                     Line("Uploading to Azure AI Search...", 0, <<>>, <<>>)>>]

\* Lines 60-68: the result of azure_client.upload_documents is result.
process_pdf_upload(run, result) ==
    LET called == [run EXCEPT !.calls = Append(@, "upload_documents")]
    IN IF result.success
       THEN LET status == called.status \o
                    <<Line("Successfully uploaded documents to Azure",
                           result.count, <<>>, <<>>),
                      Line("Index: ", 0, <<>>, <<result.index_name>>)>>
            IN Return([called EXCEPT !.status = status,
                                     !.completed = Append(@, "UPLOAD")],
                      "DONE", status)
       ELSE LET status == called.status \o
                    <<Line("Upload failed: ", 0, <<>>, result.error)>>
            IN Return([called EXCEPT !.status = status], "ERROR", status)

\* ------------------------------------------ main.create_index, delete_index
\* What an entry point of main.py hands to its caller: the status string it
\* returned (<<>> when it returned none) and whether an exception left it.
Status(line) == [escaped |-> FALSE, status |-> <<line>>]

\* main.create_index(): azure_client.create_index() with the default
\* dimension, then one status string for each outcome.
main_create_index(ix, fault) ==
    LET c == create_index(ix, DefaultDim, fault)
        result == c.out.value
    IN [index |-> c.index, attempts |-> c.attempts, result |-> c.out] @@
       (IF c.out.raised
        THEN Status(Line("Error: ", 0, <<>>, c.out.msg))
        ELSE IF result.success
        THEN Status(Line("Index created successfully", 0, <<>>,
                         <<result.index_name>>))
        ELSE Status(Line("Error creating index: ", 0, <<>>, result.error)))

\* main.delete_index(): azure_client.delete_index(), then one status string
\* for each outcome.
main_delete_index(ix, fault) ==
    LET c == delete_index(ix, fault)
        result == c.out.value
    IN [index |-> c.index, attempts |-> c.attempts, result |-> c.out] @@
       (IF c.out.raised
        THEN Status(Line("Error: ", 0, <<>>, c.out.msg))
        ELSE IF result.success
        THEN Status(Line("", 0, <<>>, result.message))
        ELSE Status(Line("Error deleting index: ", 0, <<>>, result.error)))

\* ------------------------------------------------- backend/embeddings/app.py
\* A JSON value as request.get_json() returns it: None, a bool, a number, a
\* str, a list or a dict (keys and vals are the dict's items, in order).
Json(kind, num, str, items, keys, vals) ==
    [kind |-> kind, num |-> num, str |-> str, items |-> items,
     keys |-> keys, vals |-> vals]
JNull == Json("null", 0, <<>>, <<>>, <<>>, <<>>)
JBool(b) == Json("bool", IF b THEN 1 ELSE 0, <<>>, <<>>, <<>>, <<>>)
JNum(n) == Json("number", n, <<>>, <<>>, <<>>, <<>>)
JStr(s) == Json("string", 0, s, <<>>, <<>>, <<>>)
JArr(items) == Json("array", 0, <<>>, items, <<>>, <<>>)
JObj(keys, vals) == Json("object", 0, <<>>, <<>>, keys, vals)

\* bool(j): Python truthiness.
Truthy(j) ==
    CASE j.kind = "null" -> FALSE
      [] j.kind \in {"bool", "number"} -> j.num # 0
      [] j.kind = "string" -> j.str # <<>>
      [] j.kind = "array" -> j.items # <<>>
      [] j.kind = "object" -> j.keys # <<>>

\* sub in s, for two str.
IsSubstring(sub, s) ==
    \E i \in 1..(Len(s) - Len(sub) + 1) : SubSeq(s, i, i + Len(sub) - 1) = sub

\* key in j: dict membership, list membership, substring; TypeError otherwise.
Contains(key, j) ==
    CASE j.kind = "object" -> Returned(\E i \in DOMAIN j.keys : j.keys[i] = key)
      [] j.kind = "array" ->
            Returned(\E i \in DOMAIN j.items :
                        j.items[i].kind = "string" /\ j.items[i].str = key)
      [] j.kind = "string" -> Returned(IsSubstring(key, j.str))
      [] OTHER -> Raised(<<"argument of type is not iterable">>)

\* j[key] for a str key: the dict's value; TypeError for a list or a str.
GetItem(j, key) ==
    IF j.kind = "object"
    THEN IF \E i \in DOMAIN j.keys : j.keys[i] = key
         THEN Returned(j.vals[CHOOSE i \in DOMAIN j.keys : j.keys[i] = key])
         ELSE Raised(<<"KeyError">>)
    ELSE Raised(<<"indices must be integers">>)

model_name == "all-MiniLM-L6-v2"

\* A response: the status code and the JSON body, keys being the body's keys.
\* encodes is the number of model.encode calls the handler made for it.
Response(code, keys, error, embedding, embeddings, count, dimension, model) ==
    [code |-> code, keys |-> keys, error |-> error, embedding |-> embedding,
     embeddings |-> embeddings, count |-> count, dimension |-> dimension,
     model |-> model, encodes |-> 0]

\* The response of a handler that has called model.encode once.
Encoded(response) == [response EXCEPT !.encodes = 1]

ErrorResponse(code, error) ==
    Response(code, {"error"}, error, <<>>, <<>>, -1, -1, None)

TextKey == <<"t", "e", "x", "t">>
TextsKey == <<"t", "e", "x", "t", "s">>

\* model.encode(text, normalize_embeddings=True) for one str.
EncodeOne(text, fault) ==
    IF fault THEN Raised(<<"model failed">>) ELSE Returned(Encode(text.str))

\* model.encode(texts, normalize_embeddings=True) for a list: it raises for
\* an item that is no str.
EncodeMany(texts, fault) ==
    IF fault \/ \E i \in DOMAIN texts.items : texts.items[i].kind # "string"
    THEN Raised(<<"model failed">>)
    ELSE Returned([i \in DOMAIN texts.items |-> Encode(texts.items[i].str)])

\* POST /embed: data is request.get_json(), fault the model raising.
embed(data, fault) ==
    IF ~Truthy(data) THEN ErrorResponse(400, <<"Missing text field">>)
    ELSE LET has == Contains(TextKey, data)
         IN IF has.raised THEN ErrorResponse(500, has.msg)
            ELSE IF ~has.value
            THEN ErrorResponse(400, <<"Missing text field">>)
            ELSE LET text == GetItem(data, TextKey)
                 IN IF text.raised THEN ErrorResponse(500, text.msg)
                    ELSE IF ~Truthy(text.value) \/ text.value.kind # "string"
                    THEN ErrorResponse(400,
                            <<"Text must be a non-empty string">>)
                    ELSE LET e == EncodeOne(text.value, fault)
                         IN IF e.raised
                            THEN Encoded(ErrorResponse(500, e.msg))
                            ELSE Encoded(Response(200,
                                   {"embedding", "dimension", "model"}, <<>>,
                                   e.value, <<>>, -1, Len(e.value),
                                   model_name))

\* POST /embed/batch.
embed_batch(data, fault) ==
    IF ~Truthy(data) THEN ErrorResponse(400, <<"Missing texts field">>)
    ELSE LET has == Contains(TextsKey, data)
         IN IF has.raised THEN ErrorResponse(500, has.msg)
            ELSE IF ~has.value
            THEN ErrorResponse(400, <<"Missing texts field">>)
            ELSE LET texts == GetItem(data, TextsKey)
                 IN IF texts.raised THEN ErrorResponse(500, texts.msg)
                    ELSE IF texts.value.kind # "array"
                            \/ Len(texts.value.items) = 0
                    THEN ErrorResponse(400,
                            <<"texts must be a non-empty array">>)
                    ELSE LET e == EncodeMany(texts.value, fault)
                         IN IF e.raised
                            THEN Encoded(ErrorResponse(500, e.msg))
                            ELSE Encoded(Response(200,
                                   {"embeddings", "count", "dimension",
                                    "model"}, <<>>, <<>>, e.value,
                                   Len(e.value),
                                   IF e.value # <<>> THEN Len(e.value[1])
                                   ELSE 0,
                                   model_name))

\* ------------------------------------------------------------------- state
VARIABLES
    index,   \* the remote search index
    run,     \* the current (or last) process_pdf invocation
    last,    \* the last call of an AzureSearchClient method and its outcome
    ops,     \* the number of invocations so far; also the clock of utcnow()
    http     \* the embedding service: its last request and response

vars == <<index, run, last, ops, http>>

\* ------------------------------------------------------------------ inputs
Path1 == <<"t", "/", "a", ".", "b">>
Path2 == <<"a", "_", "b">>
Path3 == <<"c">>

PdfFiles ==
    { NoFile,
      File(Path1, << <<"x", " ">> >>, TRUE),
      File(Path2, << <<"x", "y">>, <<>>, <<"z">> >>, TRUE),
      File(Path3, << <<>> >>, TRUE),
      File(Path3, << <<"x">> >>, FALSE) }

SourceFiles == { <<"a", "_", "b">>, <<"c">> }

ChunkLists == { <<>>, << <<"p">>, <<"q", "r">> >> }

EmbeddingLists == { <<>>, << <<1, 0>> >>, << <<1, 0>>, <<0, 1>> >> }

Dims == { DefaultDim, 2 * DefaultDim }

TopKs == { 1, 5 }

Queries == { <<1, 0>> }

\* The values of a request's text or texts field.
FieldValues ==
    { JNull, JStr(<<>>), JStr(<<"h", "i">>), JNum(0), JNum(7), JArr(<<>>),
      JArr(<<JStr(<<"h", "i">>)>>),
      JArr(<<JStr(<<"h", "i">>), JStr(<<"y", "o", "u">>)>>),
      JArr(<<JNum(7)>>), JObj(<<>>, <<>>) }

\* The request bodies, as parsed JSON.
Bodies ==
    { JNull, JObj(<<>>, <<>>), JArr(<<>>), JNum(0), JNum(7), JBool(TRUE),
      JStr(<<>>), JStr(TextKey), JStr(<<"c", "o", "n">> \o TextsKey),
      JArr(<<JStr(TextKey)>>), JArr(<<JStr(TextsKey)>>),
      JObj(<<<<"o">>>>, <<JStr(<<"h", "i">>)>>) }
    \cup { JObj(<<TextKey>>, <<v>>) : v \in FieldValues }
    \cup { JObj(<<TextsKey>>, <<v>>) : v \in FieldValues }

\* ----------------------------------------------------------------- actions
\* The record of one client call: its arguments, the environment's fault,
\* its outcome, and what it did to the remote service (called, sent, stored,
\* overwrote: the documents of the index it replaced).  again: the call is a
\* create_index that follows a create_index of the same dimension which
\* reached the service.  attempts: the number of remote calls it made.
\* via, escaped, status: for a call made by an entry point of main.py, the
\* entry point ("main"), whether an exception left it, and the status
\* string it returned.
Call(op, dim, chunks, embeddings, source_file, fault, raised, msg,
     result, hits, called, sent, stored, overwrote) ==
    [op |-> op, dim |-> dim, chunks |-> chunks,
     embeddings |-> embeddings, source_file |-> source_file, fault |-> fault,
     raised |-> raised, msg |-> msg, result |-> result, hits |-> hits,
     called |-> called, sent |-> sent, stored |-> stored,
     overwrote |-> overwrote,
     again |-> op = "create_index" /\ last.op = op /\ last.dim = dim
               /\ ~last.fault,
     attempts |-> 0, via |-> "client", escaped |-> FALSE, status |-> <<>>]

NoCall ==
    [op |-> "none", dim |-> 0, chunks |-> <<>>,
     embeddings |-> <<>>, source_file |-> <<>>, fault |-> FALSE,
     raised |-> FALSE, msg |-> <<>>, result |-> Failure(<<>>), hits |-> <<>>,
     called |-> FALSE, sent |-> <<>>, stored |-> 0, overwrote |-> 0,
     again |-> FALSE,
     attempts |-> 0, via |-> "client", escaped |-> FALSE, status |-> <<>>]

\* The documents of before that are no longer in after.
Overwritten(before, after) == Cardinality(before.docs \ after.docs)

\* The embedding service before its first request.
NoRequest == [served |-> 0, endpoint |-> None, data |-> JNull,
              response |-> ErrorResponse(0, <<>>)]

Init ==
    /\ index = NoIndex
    /\ run = NoRun
    /\ last = NoCall
    /\ ops = 0
    /\ http = NoRequest

\* The positions of a batch of n documents whose indexing the service may
\* report as failed: none, or any one of them.  A call that raises, or that
\* is never made, has none.
Refusals(fault, n, m) ==
    IF fault \/ n # m THEN {{}} ELSE {{}} \cup {{i} : i \in 1..n}

Idle == run.stage \in {"IDLE", "DONE", "ERROR"}

\* The Process button: process_pdf is invoked with the uploaded file.
ClickProcess ==
    /\ Idle
    /\ ops < MaxOps
    /\ \E pdf_file \in PdfFiles : run' = NewRun(ops + 1, pdf_file)
    /\ ops' = ops + 1
    /\ UNCHANGED <<index, last, http>>

Start ==
    /\ run.stage = "START"
    /\ run' = process_pdf_start(run)
    /\ UNCHANGED <<index, last, ops, http>>

Extract ==
    /\ run.stage = "EXTRACT"
    /\ run' = process_pdf_extract(run)
    /\ UNCHANGED <<index, last, ops, http>>

Chunk ==
    /\ run.stage = "CHUNK"
    /\ \E fault \in BOOLEAN : run' = process_pdf_chunk(run, fault)
    /\ UNCHANGED <<index, last, ops, http>>

Embed ==
    /\ run.stage = "EMBED"
    /\ \E fault \in BOOLEAN : run' = process_pdf_embed(run, fault)
    /\ UNCHANGED <<index, last, ops, http>>

Upload ==
    /\ run.stage = "UPLOAD"
    /\ \E fault \in BOOLEAN :
       \E refused \in Refusals(fault, Len(run.chunks), Len(run.embeddings)) :
          LET u == upload_documents(index, run.chunks, run.embeddings,
                                    run.file_name, ops, fault, refused)
          IN /\ index' = u.index
             /\ last' = [Call("upload_documents", 0, run.chunks,
                              run.embeddings, run.file_name, fault,
                              u.out.raised, u.out.msg, u.out.value, <<>>,
                              u.called, u.sent, u.stored,
                              Overwritten(index, u.index))
                           EXCEPT !.attempts = u.attempts]
             /\ run' = process_pdf_upload(run, u.out.value)
    /\ UNCHANGED <<ops, http>>

\* Direct calls of the client's methods.
CreateIndex ==
    /\ ops < MaxOps
    /\ \E embedding_dim \in Dims, fault \in BOOLEAN :
          LET c == create_index(index, embedding_dim, fault)
          IN /\ index' = c.index
             /\ last' = [Call("create_index", embedding_dim,
                              <<>>, <<>>, <<>>, fault, c.out.raised, c.out.msg,
                              c.out.value, <<>>, TRUE, <<>>, 0, 0)
                           EXCEPT !.attempts = c.attempts]
    /\ ops' = ops + 1
    /\ UNCHANGED <<run, http>>

DeleteIndex ==
    /\ ops < MaxOps
    /\ \E fault \in BOOLEAN :
          LET c == delete_index(index, fault)
          IN /\ index' = c.index
             /\ last' = [Call("delete_index", 0, <<>>, <<>>,
                              <<>>, fault, c.out.raised, c.out.msg,
                              c.out.value, <<>>, TRUE, <<>>, 0, 0)
                           EXCEPT !.attempts = c.attempts]
    /\ ops' = ops + 1
    /\ UNCHANGED <<run, http>>

UploadDocuments ==
    /\ ops < MaxOps
    /\ \E chunks \in ChunkLists, embeddings \in EmbeddingLists,
          source_file \in SourceFiles, fault \in BOOLEAN :
          \E refused \in Refusals(fault, Len(chunks), Len(embeddings)) :
             LET u == upload_documents(index, chunks, embeddings, source_file,
                                       ops + 1, fault, refused)
             IN /\ index' = u.index
                /\ last' = [Call("upload_documents", 0, chunks,
                                 embeddings, source_file, fault,
                                 u.out.raised, u.out.msg, u.out.value, <<>>,
                                 u.called, u.sent, u.stored,
                                 Overwritten(index, u.index))
                              EXCEPT !.attempts = u.attempts]
    /\ ops' = ops + 1
    /\ UNCHANGED <<run, http>>

SearchSimilar ==
    /\ ops < MaxOps
    /\ \E query_embedding \in Queries, top_k \in TopKs, fault \in BOOLEAN :
          LET r == search_similar(index, query_embedding, top_k, fault)
          IN last' = [Call("search_similar", 0, <<>>, <<>>, <<>>,
                           fault, r.raised, r.msg, Failure(<<>>), r.value,
                           TRUE, <<>>, 0, 0)
                        EXCEPT !.attempts = r.attempts]
    /\ ops' = ops + 1
    /\ UNCHANGED <<index, run, http>>

Next ==
    \/ ClickProcess
    \/ Start
    \/ Extract
    \/ Chunk
    \/ Embed
    \/ Upload
    \/ CreateIndex
    \/ DeleteIndex
    \/ UploadDocuments
    \/ SearchSimilar

Spec == Init /\ [][Next]_vars

\* --------------------------------------------------- the processor's UI
\* The Create Index and Delete Index buttons of main.py.  Each handler runs
\* to its return in one step; the Process button's handler is ClickProcess
\* and the stages that follow it.
ClickCreateIndex ==
    /\ ops < MaxOps
    /\ \E fault \in BOOLEAN :
          LET m == main_create_index(index, fault)
          IN /\ index' = m.index
             /\ last' = [Call("create_index", DefaultDim, <<>>, <<>>, <<>>,
                              fault, m.result.raised, m.result.msg,
                              m.result.value, <<>>, TRUE, <<>>, 0, 0)
                           EXCEPT !.attempts = m.attempts, !.via = "main",
                                  !.escaped = m.escaped, !.status = m.status]
    /\ ops' = ops + 1
    /\ UNCHANGED <<run, http>>

ClickDeleteIndex ==
    /\ ops < MaxOps
    /\ \E fault \in BOOLEAN :
          LET m == main_delete_index(index, fault)
          IN /\ index' = m.index
             /\ last' = [Call("delete_index", 0, <<>>, <<>>, <<>>,
                              fault, m.result.raised, m.result.msg,
                              m.result.value, <<>>, TRUE, <<>>, 0, 0)
                           EXCEPT !.attempts = m.attempts, !.via = "main",
                                  !.escaped = m.escaped, !.status = m.status]
    /\ ops' = ops + 1
    /\ UNCHANGED <<run, http>>

NextMain ==
    \/ ClickProcess
    \/ Start
    \/ Extract
    \/ Chunk
    \/ Embed
    \/ Upload
    \/ ClickCreateIndex
    \/ ClickDeleteIndex

\* process_pdf is straight-line synchronous code: once it is invoked, the
\* statement it stands at is executed.
SpecMain ==
    /\ Init
    /\ [][NextMain]_vars
    /\ WF_vars(Start)
    /\ WF_vars(Extract)
    /\ WF_vars(Chunk)
    /\ WF_vars(Embed)
    /\ WF_vars(Upload)

\* ------------------------------------------------- the embedding service
\* Requests handled by the service (it is a process of its own).
MaxRequests == 2

PostEmbed ==
    /\ http.served < MaxRequests
    /\ \E data \in Bodies, fault \in BOOLEAN :
          http' = [served |-> http.served + 1, endpoint |-> "/embed",
                   data |-> data, response |-> embed(data, fault)]
    /\ UNCHANGED <<index, run, last, ops>>

PostEmbedBatch ==
    /\ http.served < MaxRequests
    /\ \E data \in Bodies, fault \in BOOLEAN :
          http' = [served |-> http.served + 1, endpoint |-> "/embed/batch",
                   data |-> data, response |-> embed_batch(data, fault)]
    /\ UNCHANGED <<index, run, last, ops>>

NextHttp ==
    \/ PostEmbed
    \/ PostEmbedBatch

SpecHttp == Init /\ [][NextHttp]_vars

\* ================================================================== claims
Range(f) == {f[i] : i \in DOMAIN f}

\* A step in which a client method was called (directly or by process_pdf).
ClientCall ==
    \/ ops' = ops + 1 /\ run' = run
    \/ run.stage = "UPLOAD" /\ run'.stage # "UPLOAD"

\* The status text process_pdf has accumulated once the stages of done have
\* completed: the Processing line, and each stage's lines.
Accumulated(r) ==
    <<Line("Processing: ", 0, r.file_name, <<>>),
      Line("Extracting text from PDF...", 0, <<>>, <<>>)>>
    \o (IF "EXTRACT" \in Range(r.completed)
        THEN <<Line("Extracted characters", Len(r.text), <<>>, <<>>),
               Line("Chunking text...", 0, <<>>, <<>>)>>
        ELSE <<>>)
    \o (IF "CHUNK" \in Range(r.completed)
        THEN <<Line("Created chunks", Len(r.chunks), <<>>, <<>>),
               Line("Generating embeddings...", 0, <<>>, <<>>)>>
        ELSE <<>>)
    \o (IF "EMBED" \in Range(r.completed)
        THEN <<Line("Generated embeddings", Len(r.embeddings), <<>>, <<>>),
               Line("Uploading to Azure AI Search...", 0, <<>>, <<>>)>>
        ELSE <<>>)

\* C1: a process_pdf run of a given file that fails at any stage returns the
\* status text accumulated up to that stage with one failure line appended,
\* and the failing call is the last call of the run.
C1_FailureReturnsAccumulatedStatus ==
    (run.stage = "ERROR" /\ run.pdf_file.given) =>
        /\ run.returned
        /\ Len(run.calls) = Len(run.completed) + 1
        /\ Len(run.output) = Len(Accumulated(run)) + 1
        /\ SubSeq(run.output, 1, Len(Accumulated(run))) = Accumulated(run)

\* The stage transitions of one run.
StageOrder ==
    { <<"START", "EXTRACT">>, <<"EXTRACT", "CHUNK">>, <<"CHUNK", "EMBED">>,
      <<"EMBED", "UPLOAD">>, <<"UPLOAD", "DONE">> }
    \cup { <<st, "ERROR">> : st \in {"START", "EXTRACT", "CHUNK", "EMBED",
                                    "UPLOAD"} }

CallOrder == <<"extract_text_from_pdf", "chunk_text", "generate_embeddings",
               "upload_documents">>

\* C2: within a run the stage only moves along START, EXTRACT, CHUNK, EMBED,
\* UPLOAD, DONE or into ERROR, and never out of ERROR or DONE (a new run
\* starts at START); the external calls are made in that order, chunk_text
\* only after a non-empty extraction, upload_documents only after
\* extraction, chunking and embedding all completed.
C2_StagesInOrder ==
    /\ [](/\ Len(run.calls) <= 4
          /\ run.calls = SubSeq(CallOrder, 1, Len(run.calls))
          /\ ("chunk_text" \in Range(run.calls) =>
                 /\ run.text # <<>>
                 /\ "EXTRACT" \in Range(run.completed))
          /\ ("upload_documents" \in Range(run.calls) =>
                 {"EXTRACT", "CHUNK", "EMBED"} \subseteq Range(run.completed))
          /\ (run.stage = "DONE" => Len(run.calls) = 4))
    /\ [][/\ (run'.id = run.id /\ run'.stage # run.stage) =>
                <<run.stage, run'.stage>> \in StageOrder
          /\ (run'.id = run.id /\ run.stage \in {"ERROR", "DONE"}) =>
                run' = run
          /\ run'.id # run.id =>
                run.stage \in {"IDLE", "DONE", "ERROR"} /\ run'.stage = "START"
         ]_vars

\* A run stopped by an empty extraction: one call, no chunking.
C2_Witness ==
    /\ run.stage = "ERROR"
    /\ run.pdf_file.readable
    /\ run.calls = <<"extract_text_from_pdf">>
    /\ run.text = <<>>

\* C3: upload_documents with len(chunks) # len(embeddings) returns
\* success=false with an error, does not call the remote service, and leaves
\* the remote index as it was.
C3_MismatchNeverReachesService ==
    [][(ClientCall /\ last'.op = "upload_documents"
        /\ Len(last'.chunks) # Len(last'.embeddings)) =>
           /\ ~last'.raised
           /\ ~last'.result.success
           /\ last'.result.error # <<>>
           /\ ~last'.called
           /\ last'.sent = <<>>
           /\ index' = index]_vars

C3_Witness ==
    /\ last.op = "upload_documents"
    /\ Len(last.chunks) = 2
    /\ Len(last.embeddings) = 1
    /\ index.exists

\* C4: for chunks and embeddings of equal length n the batch given to the
\* remote service holds n documents, the i-th with chunk i's content,
\* embedding i and chunk_index i (from 0), and no two with the same id.
C4_BatchIsOneDocumentPerChunk ==
    (last.op = "upload_documents" /\ Len(last.chunks) = Len(last.embeddings)) =>
        /\ last.called
        /\ Len(last.sent) = Len(last.chunks)
        /\ \A i \in DOMAIN last.sent :
              /\ last.sent[i].content = last.chunks[i]
              /\ last.sent[i].content_vector = last.embeddings[i]
              /\ last.sent[i].chunk_index = i - 1
              /\ last.sent[i].source_file = last.source_file
        /\ \A i, j \in DOMAIN last.sent :
              last.sent[i].id = last.sent[j].id => i = j

C4_Witness ==
    /\ last.op = "upload_documents"
    /\ Len(last.sent) = 3
    /\ last.stored = 3

\* C5: a document of the batch never has the id of a document already in the
\* index unless both are the same chunk (same source_file and chunk_index),
\* so an upload never overwrites a document of another source file.
C5_KeysUniqueAcrossFiles ==
    [][(ClientCall /\ last'.op = "upload_documents") =>
          \A d \in index.docs : \A s \in Range(last'.sent) :
             s.id = d.id => /\ s.source_file = d.source_file
                            /\ s.chunk_index = d.chunk_index]_vars

\* C6: when upload_documents returns success=true its count is the number of
\* chunks passed in and the number of documents the call stored in the
\* index, and index_name is the client's index name.
C6_CountIsStored ==
    (last.op = "upload_documents" /\ last.result.success) =>
        /\ last.result.count = Len(last.chunks)
        /\ last.result.index_name = index_name
        /\ last.result.count = last.stored

\* Whether the step's client method calls the remote service and that call
\* fails, and the error it fails with.
RemoteFails ==
    /\ last'.called
    /\ \/ last'.fault
       \/ last'.op \in {"delete_index", "upload_documents", "search_similar"}
          /\ ~index.exists

RemoteError == IF last'.fault THEN ServiceError ELSE NotFoundError

\* C7: create_index, delete_index and upload_documents never raise, and
\* return success=false with the error's message when the remote call
\* fails; search_similar then raises an exception whose message wraps the
\* error, and returns no value.
C7_TwoFailureStyles ==
    [][ClientCall =>
         /\ last'.op \in {"create_index", "delete_index", "upload_documents"} =>
               /\ ~last'.raised
               /\ RemoteFails => /\ ~last'.result.success
                                 /\ last'.result.error = RemoteError
               /\ (~RemoteFails /\ last'.called) => last'.result.success
         /\ last'.op = "search_similar" =>
               /\ RemoteFails =>
                     /\ last'.raised
                     /\ last'.hits = <<>>
                     /\ last'.msg = <<"Error searching documents: ">>
                                    \o RemoteError
               /\ ~RemoteFails => ~last'.raised]_vars

C7_Witness ==
    /\ last.op = "search_similar"
    /\ last.raised
    /\ last.msg = <<"Error searching documents: ">> \o ServiceError
    /\ index.docs # {}

Keys(ix) == {d.id : d \in ix.docs}

\* C9: a key leaves the index only in a successful delete_index, after which
\* the index holds no documents; the index never holds two documents of one
\* key; an upload leaves, for each key of its batch that was in the index,
\* exactly one document: the batch's, or the old one where the service
\* refused the batch's.
C9_DocumentsLeaveOnlyByDelete ==
    [][/\ ~(Keys(index) \subseteq Keys(index')) =>
             /\ ClientCall
             /\ last'.op = "delete_index"
             /\ last'.result.success
       /\ (ClientCall /\ last'.op = "delete_index" /\ last'.result.success) =>
             index'.docs = {}
       /\ \A d, e \in index'.docs : d.id = e.id => d = e
       /\ (ClientCall /\ last'.op = "upload_documents") =>
             \A s \in Range(last'.sent) : \A d \in index.docs :
                d.id = s.id =>
                   /\ {e \in index'.docs : e.id = s.id} \in {{s}, {d}}
                   /\ last'.stored = Len(last'.sent) => s \in index'.docs
      ]_vars

\* An upload that replaced a document of the index.
C9_Witness ==
    /\ last.op = "upload_documents"
    /\ last.result.success
    /\ last.overwrote > 0

\* C10: a create_index(d) whose remote call is served returns success=true
\* with the index name and leaves the index existing with the schema of d
\* and its documents, whether or not the index existed; repeated right after
\* a served create_index(d) it leaves the index exactly as it was.
C10_CreateIndexIdempotent ==
    [][(ClientCall /\ last'.op = "create_index" /\ ~last'.fault) =>
          /\ ~last'.raised
          /\ last'.result.success
          /\ last'.result.index_name = index_name
          /\ index'.exists
          /\ index'.schema = SearchIndex(last'.dim)
          /\ index'.docs = index.docs
          /\ last'.again => index' = index]_vars

C10_Witness ==
    /\ last.op = "create_index"
    /\ last.again
    /\ last.result.success
    /\ index.schema = SearchIndex(2 * DefaultDim)

\* Whether a request body is invalid input of the endpoint: text missing,
\* empty or no str; texts missing, no list or empty.
HasField(data, key) ==
    data.kind = "object" /\ \E i \in DOMAIN data.keys : data.keys[i] = key

Field(data, key) == data.vals[CHOOSE i \in DOMAIN data.keys : data.keys[i] = key]

InvalidInput(endpoint, data) ==
    IF endpoint = "/embed"
    THEN ~(/\ HasField(data, TextKey)
           /\ Field(data, TextKey).kind = "string"
           /\ Field(data, TextKey).str # <<>>)
    ELSE ~(/\ HasField(data, TextsKey)
           /\ Field(data, TextsKey).kind = "array"
           /\ Field(data, TextsKey).items # <<>>)

\* A 200 body with every field of its endpoint set.
CompleteBody(endpoint, r) ==
    IF endpoint = "/embed"
    THEN /\ r.keys = {"embedding", "dimension", "model"}
         /\ r.embedding # <<>>
         /\ r.dimension = Len(r.embedding)
         /\ r.model = model_name
    ELSE /\ r.keys = {"embeddings", "count", "dimension", "model"}
         /\ r.embeddings # <<>>
         /\ r.count = Len(r.embeddings)
         /\ \A i \in DOMAIN r.embeddings : Len(r.embeddings[i]) = r.dimension
         /\ r.model = model_name

\* C8: every response is 200 with a complete body, 400 with {error} or 500
\* with {error}; an invalid input is answered 400, and only an invalid input.
C8_InvalidInputIs400 ==
    http.served > 0 =>
        LET r == http.response
            invalid == InvalidInput(http.endpoint, http.data)
        IN /\ r.code \in {200, 400, 500}
           /\ r.code = 200 => CompleteBody(http.endpoint, r)
           /\ r.code # 200 => r.keys = {"error"} /\ r.error # <<>>
           /\ invalid <=> r.code = 400

\* ---------------------------------------------------------- both programs
\* The processor and the embedding service are separate processes that share
\* no state: every state of one is reached with the other at rest.
NextAll ==
    \/ http.served = 0 /\ ClickProcess
    \/ http.served = 0 /\ Start
    \/ http.served = 0 /\ Extract
    \/ http.served = 0 /\ Chunk
    \/ http.served = 0 /\ Embed
    \/ http.served = 0 /\ Upload
    \/ http.served = 0 /\ CreateIndex
    \/ http.served = 0 /\ DeleteIndex
    \/ http.served = 0 /\ UploadDocuments
    \/ http.served = 0 /\ SearchSimilar
    \/ ops = 0 /\ PostEmbed
    \/ ops = 0 /\ PostEmbedBatch

SpecAll == Init /\ [][NextAll]_vars

\* C11: no operation retries.  A process_pdf run makes each of its external
\* calls at most once and is over (ERROR, returned) as soon as one of them
\* has failed; a client method calls the remote service at most once, and
\* when that call fails the method ends in a failure (success=false, or the
\* exception of search_similar); a request handler calls model.encode at
\* most once, and answers 500 when that call fails.
C11_NoRetry ==
    /\ \A i, j \in DOMAIN run.calls : run.calls[i] = run.calls[j] => i = j
    /\ Len(run.calls) - Len(run.completed) \in {0, 1}
    /\ Len(run.calls) > Len(run.completed) =>
          run.stage = "ERROR" /\ run.returned
    /\ last.attempts <= 1
    /\ last.attempts = (IF last.called THEN 1 ELSE 0)
    /\ (last.called /\ last.fault) =>
          \/ last.raised
          \/ last.op # "search_similar" /\ ~last.result.success
    /\ http.response.encodes <= 1
    /\ http.response.code = 200 => http.response.encodes = 1
    /\ (http.response.encodes = 1 /\ http.response.code # 200) =>
          http.response.code = 500

\* An upload whose one remote call failed, in a run that ended there.
C11_Witness ==
    /\ run.stage = "ERROR"
    /\ Len(run.calls) = 4
    /\ last.op = "upload_documents"
    /\ last.fault
    /\ last.attempts = 1

\* What holds of an invocation at every moment: process_pdf has returned
\* exactly when it is in DONE or ERROR, what it returned is a status string,
\* DONE follows four completed stages, and a button handler of main.py has
\* returned one status string with no exception leaving it.
EntryPointsReturned ==
    /\ run.returned <=> run.stage \in {"DONE", "ERROR"}
    /\ run.returned <=> run.output # <<>>
    /\ run.stage = "DONE" =>
          run.completed = <<"EXTRACT", "CHUNK", "EMBED", "UPLOAD">>
    /\ last.via = "main" =>
          /\ ~last.escaped
          /\ Len(last.status) = 1

\* The step on which process_pdf returns ends in DONE when it is the upload
\* stage and the upload result has success = true, in ERROR otherwise; an
\* invocation that has returned does nothing more.
ReturnStep ==
    /\ (run.returned /\ run'.id = run.id) => run' = run
    /\ (~run.returned /\ run'.returned) =>
          run'.stage = (IF run.stage = "UPLOAD" /\ last'.result.success
                        THEN "DONE" ELSE "ERROR")

\* C12: every invocation of process_pdf, create_index and delete_index of
\* main.py terminates by returning exactly one status string and never
\* raises, whatever the file and whichever stage or remote call fails;
\* process_pdf ends in DONE only when the upload result has success = true,
\* and in ERROR otherwise.
C12_EntryPointsReturnOneStatus ==
    /\ []EntryPointsReturned
    /\ [][ReturnStep]_vars
    /\ (run.stage \notin {"IDLE", "DONE", "ERROR"}) ~> run.returned

\* process_pdf has returned in DONE, and the Delete Index button that
\* followed met a failing remote call and returned its error status.
C12_Witness ==
    /\ run.stage = "DONE"
    /\ run.returned
    /\ last.via = "main"
    /\ last.op = "delete_index"
    /\ last.fault
    /\ ~last.result.success
    /\ last.status # <<>>

====
